---------------------------- MODULE Spec2Model ----------------------------
(***************************************************************************)
(* State-machine model of the prompt state manager (PromptDjMidi) and of   *)
(* the weight knob (WeightKnob).                                           *)
(*                                                                         *)
(* JavaScript objects have identity: a Map and a Prompt record are heap    *)
(* objects, and a variable holds a reference (an index into the heap).     *)
(* Numbers that stand for weights are fixed-point, in units of 1/400       *)
(* (0.0025), so 2.0 is 800, 0.3 is 120 and one pixel of drag is 4 units.   *)
(* A string that is a preset name is a sequence of tokens, so that trim()  *)
(* has something to do; a string that holds JSON is modelled by the value  *)
(* it encodes, or marked as text that is no JSON at all.                   *)
(***************************************************************************)
EXTENDS Integers, Sequences, FiniteSets, TLC

VARIABLES
    recs,                \* heap of Prompt record objects, by reference
    mapsH,               \* heap of Map objects: each a sequence of <<key, ref>>
    prompts,             \* this.prompts: reference of the current Map
    presets,             \* this.presets: the preset object
    selectedPresetName,  \* this.selectedPresetName
    storage,             \* localStorage['prompt-dj-presets']
    events,              \* CustomEvents dispatched by the last handler
    op,                  \* the last handler invoked, with its inputs
    lastSave,            \* history: the last save, its name and what it saw
    showMidi,            \* this.showMidi
    midiInputIds,        \* this.midiInputIds
    activeMidiInputId,   \* this.activeMidiInputId
    midiRequests,        \* setShowMidi calls suspended at their await
    value,               \* WeightKnob.value, per knob
    dragStartPos,        \* WeightKnob.dragStartPos, per knob
    dragStartValue,      \* WeightKnob.dragStartValue, per knob
    windowListeners,     \* listeners registered on window: <<knob, type>>
    bodyDragging,        \* document.body.classList has 'dragging'
    knobOp,              \* the last DOM event delivered
    knobEvents           \* 'input' events dispatched by the last DOM event

midiVars == <<showMidi, midiInputIds, activeMidiInputId, midiRequests>>
mgrVars == <<recs, mapsH, prompts, presets, selectedPresetName, storage,
             events, op, lastSave, midiVars>>
knobVars == <<value, dragStartPos, dragStartValue, windowListeners,
              bodyDragging, knobOp, knobEvents>>
vars == <<recs, mapsH, prompts, presets, selectedPresetName, storage,
          events, op, lastSave, showMidi, midiInputIds, activeMidiInputId,
          midiRequests, value, dragStartPos, dragStartValue,
          windowListeners, bodyDragging, knobOp, knobEvents>>

(***************************************************************************)
(* Bounds                                                                  *)
(***************************************************************************)
\* Map objects the heap may hold; an edit allocates one, a load two.
MaxMaps == 4
\* setShowMidi calls that may be suspended at their await at one time
MaxRequests == 2

(***************************************************************************)
(* Program constants                                                       *)
(***************************************************************************)
\* Math.max(0, ...) and Math.min(2, ...): 0 and 2.0
MinValue == 0
MaxValue == 800
\* delta * 0.01 of a drag, delta * -0.0025 of the wheel
DragStep == 4
WheelStep == 1

(***************************************************************************)
(* Strings: preset names                                                   *)
(***************************************************************************)
EmptyString == <<>>
ProtoKey == <<"__proto__">>
Whitespace == {" "}
Digits == {"1", "2"}

RECURSIVE TrimStart(_)
TrimStart(s) ==
    IF s # <<>> /\ Head(s) \in Whitespace THEN TrimStart(Tail(s)) ELSE s

RECURSIVE TrimEnd(_)
TrimEnd(s) ==
    IF s # <<>> /\ s[Len(s)] \in Whitespace
    THEN TrimEnd(SubSeq(s, 1, Len(s) - 1))
    ELSE s

\* String.prototype.trim
Trim(s) == TrimEnd(TrimStart(s))

\* An integer-like property key ("1", "12"): such keys enumerate first.
IsIndexKey(k) == k # <<>> /\ \A i \in 1..Len(k) : k[i] \in Digits

DigitValue(d) == IF d = "1" THEN 1 ELSE 2

RECURSIVE IndexValue(_)
IndexValue(k) ==
    IF k = <<>> THEN 0
    ELSE 10 * IndexValue(SubSeq(k, 1, Len(k) - 1)) + DigitValue(k[Len(k)])

(***************************************************************************)
(* Plain objects used as dictionaries: own properties in the order          *)
(* Object.keys gives them (integer-like keys ascending, then the others in  *)
(* insertion order).                                                        *)
(***************************************************************************)
Keys(props) == [i \in 1..Len(props) |-> props[i][1]]
KeySet(props) == {props[i][1] : i \in 1..Len(props)}
HasOwn(props, k) == k \in KeySet(props)
IndexOfKey(props, k) == CHOOSE i \in 1..Len(props) : props[i][1] = k
OwnValue(props, k) == props[IndexOfKey(props, k)][2]

\* Does key a enumerate before key b?  Only decided for a new key a against
\* an existing key b.
KeyBefore(a, b) ==
    /\ IsIndexKey(a)
    /\ (IsIndexKey(b) => IndexValue(a) < IndexValue(b))

\* CreateDataProperty: define (or overwrite) own property k.
DefineOwn(props, k, v) ==
    IF HasOwn(props, k)
    THEN [props EXCEPT ![IndexOfKey(props, k)] = <<k, v>>]
    ELSE LET before == {i \in 1..Len(props) : ~KeyBefore(k, props[i][1])}
             n == Cardinality(before)
         IN  SubSeq(props, 1, n) \o <<<<k, v>>>> \o SubSeq(props, n + 1, Len(props))

\* obj[k] = v on a plain object: '__proto__' that is not an own property
\* reaches the setter of Object.prototype, which ignores a string.
AssignProp(props, k, v) ==
    IF k = ProtoKey /\ ~HasOwn(props, k) THEN props ELSE DefineOwn(props, k, v)

\* delete obj[k]
DeleteProp(props, k) ==
    LET keep == {i \in 1..Len(props) : props[i][1] # k}
        F[i \in 0..Len(props)] ==
            IF i = 0 THEN <<>>
            ELSE IF i \in keep THEN Append(F[i - 1], props[i]) ELSE F[i - 1]
    IN  F[Len(props)]

\* Building an object from JSON text or a spread: properties defined in turn.
RECURSIVE ObjectFrom(_)
ObjectFrom(pairs) ==
    IF pairs = <<>> THEN <<>>
    ELSE LET n == Len(pairs)
         IN  DefineOwn(ObjectFrom(SubSeq(pairs, 1, n - 1)), pairs[n][1], pairs[n][2])


(***************************************************************************)
(* Strings held as preset payloads, and the JSON they encode.  A payload   *)
(* is the empty string, text that is no JSON, or the JSON text of a tree:  *)
(* an array of [identifier, record] pairs, or a number.  The values a      *)
(* property read can also give (undefined, Object.prototype) share the     *)
(* shape.                                                                  *)
(***************************************************************************)
EmptyPayload == [k |-> "empty", t |-> "none", v |-> <<>>]
GarbagePayload == [k |-> "garbage", t |-> "none", v |-> <<>>]
NumberPayload == [k |-> "json", t |-> "num", v |-> <<>>]
Undefined == [k |-> "undefined", t |-> "none", v |-> <<>>]
ObjectPrototype == [k |-> "object", t |-> "none", v |-> <<>>]

\* ToBoolean
Truthy(x) == x.k \notin {"empty", "undefined"}

\* JSON.stringify of an array of [key, record] pairs
StringifyEntries(pairs) == [k |-> "json", t |-> "arr", v |-> pairs]

\* JSON.parse(x) throws a SyntaxError: the text is no JSON; a non-string
\* is first converted to a string ('[object Object]').
ParseThrows(x) == x.k # "json"

\* new Map(tree) throws a TypeError: the value is not iterable.
NewMapThrows(x) == x.t # "arr"

\* obj[k] read on a plain object: an own property, else what
\* Object.prototype gives for the key.
ReadProp(props, k) ==
    IF HasOwn(props, k) THEN OwnValue(props, k)
    ELSE IF k = ProtoKey THEN ObjectPrototype
    ELSE Undefined

(***************************************************************************)
(* Map objects: a sequence of <<key, reference>> in insertion order.       *)
(***************************************************************************)
MapHas(entries, key) == \E i \in 1..Len(entries) : entries[i][1] = key

\* Map.prototype.get: the reference stored under key, 0 for undefined
MapGet(entries, key) ==
    IF MapHas(entries, key)
    THEN entries[CHOOSE i \in 1..Len(entries) : entries[i][1] = key][2]
    ELSE 0

\* Map.prototype.set: an existing key keeps its position
MapSet(entries, key, ref) ==
    IF MapHas(entries, key)
    THEN [i \in 1..Len(entries) |->
            IF entries[i][1] = key THEN <<key, ref>> ELSE entries[i]]
    ELSE Append(entries, <<key, ref>>)

\* new Map(array of pairs), the i-th record being the object at base + i
RECURSIVE MapFromPairs(_, _)
MapFromPairs(pairs, base) ==
    IF pairs = <<>> THEN <<>>
    ELSE LET n == Len(pairs)
         IN  MapSet(MapFromPairs(SubSeq(pairs, 1, n - 1), base),
                    pairs[n][1], base + n)

\* Array.from(map.entries()) with every record read from the heap
EntriesOf(heap, entries) ==
    [i \in 1..Len(entries) |-> <<entries[i][1], heap[entries[i][2]]>>]

\* The content of the Map at reference m in the present state
Content(m) == EntriesOf(recs, mapsH[m])

(***************************************************************************)
(* Inputs                                                                  *)
(***************************************************************************)
InitialPrompts ==
    << [promptId |-> "A", text |-> "Bossa Nova", weight |-> 0, cc |-> 0,
        color |-> "#9900ff"],
       [promptId |-> "B", text |-> "Chillwave", weight |-> 120, cc |-> 1,
        color |-> "#5200ff"] >>

\* A stored preset whose records are out of the program's making
ForeignPrompts ==
    << <<"C", [promptId |-> "C", text |-> "Drum", weight |-> 2000, cc |-> 2,
               color |-> "#ff25f6"]>>,
       <<"A", [promptId |-> "A", text |-> "Bossa Nova", weight |-> 400,
               cc |-> 0, color |-> "#9900ff"]>> >>

PromptIds == {"A", "B", "C"}

\* e.detail of 'prompt-changed': text, weight and cc of the controller
EditDetails ==
    { [text |-> "Funk", weight |-> 400, cc |-> 5],
      [text |-> "Bossa Nova", weight |-> 800, cc |-> 0] }

\* What window.prompt() returns when not cancelled
TypedNames ==
    { <<>>, <<" ">>, <<"a">>, <<" ", "a", " ">>, ProtoKey }

\* What localStorage holds at 'prompt-dj-presets' before construction
AbsentStorage == [st |-> "absent", t |-> "none", props |-> <<>>]
GarbageStorage == [st |-> "garbage", t |-> "none", props |-> <<>>]
NullStorage == [st |-> "json", t |-> "null", props |-> <<>>]
ObjectStorage(props) == [st |-> "json", t |-> "obj", props |-> props]

StoredTexts ==
    { AbsentStorage, GarbageStorage, NullStorage,
      ObjectStorage(<< <<<<"b">>, GarbagePayload>>, <<<<"1">>, EmptyPayload>> >>),
      ObjectStorage(<< <<<<"w">>, StringifyEntries(ForeignPrompts)>>,
                       <<<<"n">>, NumberPayload>> >>) }

\* Every name a preset can have: stored before construction, or saved
PresetNames ==
    UNION {KeySet(stored.props) : stored \in StoredTexts}
        \cup ({Trim(n) : n \in TypedNames} \ {EmptyString})

(***************************************************************************)
(* Events                                                                  *)
(***************************************************************************)
PromptsChanged(m) == [type |-> "prompts-changed", map |-> m]
ErrorEvent == [type |-> "error", map |-> 0]

\* op: the handler, the prompt it was about (an edit), what prompt() gave
\* (a save), whether confirm() was shown and answered yes (a delete), and
\* at construction what the store held; for a setShowMidi call that resumes,
\* the Map that was current when it was suspended.
NoDetail == [text |-> "", weight |-> 0, cc |-> 0]

NoOp ==
    [kind |-> "init", id |-> "", detail |-> NoDetail, input |-> <<>>,
     cancel |-> FALSE, confirm |-> FALSE,
     stored |-> [st |-> "absent", t |-> "none"], since |-> 0]

NoSave == [has |-> FALSE, name |-> <<>>, v |-> <<>>]

(***************************************************************************)
(* PromptDjMidi                                                            *)
(***************************************************************************)
EmptyPresets == [t |-> "obj", props |-> <<>>]
NullPresets == [t |-> "null", props |-> <<>>]

\* JSON.stringify(this.presets)
StringifyPresets(p) ==
    IF p.t = "null" THEN NullStorage ELSE ObjectStorage(p.props)

\* loadPresetsFromStorage, from the field initialisers: what it leaves in
\* presets, selectedPresetName and the store.
LoadPresetsFromStorage(stored) ==
    IF stored.st = "absent"
    THEN [presets |-> EmptyPresets, selected |-> EmptyString, storage |-> stored]
    ELSE IF stored.st = "garbage"
    THEN \* JSON.parse throws: the key is removed
         [presets |-> EmptyPresets, selected |-> EmptyString,
          storage |-> AbsentStorage]
    ELSE IF stored.t = "null"
    THEN \* presets is assigned null, Object.keys(null) throws
         [presets |-> NullPresets, selected |-> EmptyString,
          storage |-> AbsentStorage]
    ELSE LET obj == ObjectFrom(stored.props)
             presetNames == Keys(obj)
         IN  [presets |-> [t |-> "obj", props |-> obj],
              selected |-> IF Len(presetNames) > 0 THEN presetNames[1]
                           ELSE EmptyString,
              storage |-> stored]

\* Mutant of PromptLookup: an unknown identifier falls back to the first prompt
PromptLookupOrFirst(entries, promptId) ==
    IF MapHas(entries, promptId) \/ entries = <<>>
    THEN MapGet(entries, promptId)
    ELSE entries[1][2]

\* Map.get of the edited prompt
PromptLookup(entries, promptId) == MapGet(entries, promptId)

\* Mutant of EditedRecord: the channel of the edit is dropped
EditedRecordKeepsCc(prompt, d) ==
    [prompt EXCEPT !.text = d.text, !.weight = d.weight]

\* The record after the three assignments of handlePromptChanged
EditedRecord(prompt, d) ==
    [prompt EXCEPT !.text = d.text, !.weight = d.weight, !.cc = d.cc]

HandlePromptChanged(promptId, d) ==
    LET prompt == PromptLookup(mapsH[prompts], promptId)
    IN  /\ op' = [NoOp EXCEPT !.kind = "edit", !.id = promptId, !.detail = d]
        /\ IF prompt = 0
           THEN /\ events' = <<>>
                /\ UNCHANGED <<recs, mapsH, prompts>>
           ELSE /\ Len(mapsH) < MaxMaps
                /\ recs' = [recs EXCEPT ![prompt] = EditedRecord(recs[prompt], d)]
                /\ mapsH' = Append(mapsH, MapSet(mapsH[prompts], promptId, prompt))
                /\ prompts' = Len(mapsH) + 1
                /\ events' = <<PromptsChanged(Len(mapsH) + 1)>>
        /\ UNCHANGED <<presets, selectedPresetName, storage, lastSave>>
        /\ UNCHANGED midiVars
        /\ UNCHANGED knobVars

\* The name handleSavePreset stores under: prompt() gave a string that is
\* not blank.
NameAccepted(cancel, typed) ==
    ~cancel /\ typed # EmptyString /\ Trim(typed) # EmptyString

\* this.presets after the assignment and the spread copy of handleSavePreset
PresetsAfterSave(p, trimmedName, payload) ==
    [t |-> "obj", props |-> AssignProp(p.props, trimmedName, payload)]

HandleSavePreset(cancel, typed) ==
    LET trimmedName == Trim(typed)
        promptsToSave == EntriesOf(recs, mapsH[prompts])
        saved == PresetsAfterSave(presets, trimmedName,
                                  StringifyEntries(promptsToSave))
    IN  /\ op' = [NoOp EXCEPT !.kind = "save", !.cancel = cancel,
                              !.input = IF cancel THEN <<>> ELSE typed]
        /\ events' = <<>>
        /\ IF ~NameAccepted(cancel, typed)
           THEN UNCHANGED <<presets, selectedPresetName, storage, lastSave>>
           ELSE /\ lastSave' = [has |-> TRUE, name |-> trimmedName,
                                 v |-> promptsToSave]
                /\ IF presets.t = "null"
                   THEN \* a property of null cannot be set: TypeError
                        UNCHANGED <<presets, selectedPresetName, storage>>
                   ELSE /\ presets' = saved
                        /\ selectedPresetName' = trimmedName
                        /\ storage' = StringifyPresets(saved)
        /\ UNCHANGED <<recs, mapsH, prompts>>
        /\ UNCHANGED midiVars
        /\ UNCHANGED knobVars

\* The guard of handleLoadPreset and handleDeletePreset lets the handler run
HasSelection(p, selected) ==
    /\ selected # EmptyString
    /\ p.t # "null"
    /\ Truthy(ReadProp(p.props, selected))

\* The try block of handleLoadPreset throws before this.prompts is assigned
LoadThrows(presetString) ==
    ParseThrows(presetString) \/ NewMapThrows(presetString)

\* Mutant of LoadEvents: the collection is replaced and nothing dispatched
LoadEventsNone(current, copy) == <<>>

\* The events handleLoadPreset dispatches when the try block completes
LoadEvents(current, copy) == <<PromptsChanged(copy)>>

HandleLoadPreset ==
    LET presetString == ReadProp(presets.props, selectedPresetName)
        loadedPromptsArray == presetString.v
        base == Len(recs)
        loaded == MapFromPairs(loadedPromptsArray, base)
    IN  /\ op' = [NoOp EXCEPT !.kind = "load"]
        /\ IF ~HasSelection(presets, selectedPresetName)
           THEN /\ events' = <<>>
                /\ UNCHANGED <<recs, mapsH, prompts>>
           ELSE IF LoadThrows(presetString)
           THEN /\ events' = <<ErrorEvent>>
                /\ UNCHANGED <<recs, mapsH, prompts>>
           ELSE /\ Len(mapsH) + 2 <= MaxMaps
                /\ recs' = recs \o [i \in 1..Len(loadedPromptsArray) |->
                                        loadedPromptsArray[i][2]]
                \* this.prompts, then the copy handed to the event
                /\ mapsH' = mapsH \o <<loaded, loaded>>
                /\ prompts' = Len(mapsH) + 1
                /\ events' = LoadEvents(Len(mapsH) + 1, Len(mapsH) + 2)
        /\ UNCHANGED <<presets, selectedPresetName, storage, lastSave>>
        /\ UNCHANGED midiVars
        /\ UNCHANGED knobVars

\* this.presets after the delete and the spread copy of handleDeletePreset
PresetsAfterDelete(p, name) ==
    [t |-> "obj", props |-> DeleteProp(p.props, name)]

\* Mutant of SelectionAfterDelete: the last remaining name, not the first
SelectionAfterDeleteLast(p) ==
    LET presetNames == Keys(p.props)
    IN  IF Len(presetNames) > 0 THEN presetNames[Len(presetNames)]
        ELSE EmptyString

\* The selection handleDeletePreset leaves
SelectionAfterDelete(p) ==
    LET presetNames == Keys(p.props)
    IN  IF Len(presetNames) > 0 THEN presetNames[1] ELSE EmptyString

HandleDeletePreset(answer) ==
    LET reached == HasSelection(presets, selectedPresetName)
        left == PresetsAfterDelete(presets, selectedPresetName)
    IN  /\ op' = [NoOp EXCEPT !.kind = "delete", !.confirm = reached /\ answer]
        /\ events' = <<>>
        /\ IF reached /\ answer
           THEN /\ presets' = left
                /\ selectedPresetName' = SelectionAfterDelete(left)
                /\ storage' = StringifyPresets(left)
                /\ lastSave' = IF lastSave.name = selectedPresetName
                               THEN NoSave ELSE lastSave
           ELSE UNCHANGED <<presets, selectedPresetName, storage, lastSave>>
        /\ UNCHANGED <<recs, mapsH, prompts>>
        /\ UNCHANGED midiVars
        /\ UNCHANGED knobVars

\* The select element offers the names of this.presets
HandlePresetSelectionChange(name) ==
    /\ presets.t = "obj"
    /\ name \in KeySet(presets.props)
    /\ op' = [NoOp EXCEPT !.kind = "select"]
    /\ events' = <<>>
    /\ selectedPresetName' = name
    /\ UNCHANGED <<recs, mapsH, prompts, presets, storage, lastSave>>
    /\ UNCHANGED midiVars
    /\ UNCHANGED knobVars

\* MIDI access.  MidiDispatcher is not among the sources; what
\* getMidiAccess gives is taken from what is specified of it: it resolves
\* with the list of input devices, or fails with an error that has a
\* message; the dispatcher's active device is one of the list, or none.
NoDevice == "(null)"
MidiDeviceLists == {<<>>, <<"in1">>, <<"in1", "in2">>}
MidiAccessDenied == [message |-> "MIDI access denied"]
DispatcherActiveIds(ids) == {NoDevice} \cup {ids[i] : i \in 1..Len(ids)}

\* new CustomEvent('error', {detail: e.message})
MidiErrorEvent(e) == [type |-> "error", map |-> 0, detail |-> e.message]

RemoveAt(q, i) == [j \in 1..(Len(q) - 1) |-> IF j < i THEN q[j] ELSE q[j + 1]]

\* Mutant of ShowMidiAfterFailure: the button keeps showing MIDI as on
ShowMidiAfterFailureKept(show) == show

\* this.showMidi = false in the catch
ShowMidiAfterFailure(show) == FALSE

\* setShowMidi(show) up to its return or its await
SetShowMidi(show) ==
    /\ show => Len(midiRequests) < MaxRequests
    /\ showMidi' = show
    /\ midiRequests' = IF show
                          THEN Append(midiRequests, [since |-> prompts])
                          ELSE midiRequests
    /\ op' = [NoOp EXCEPT !.kind = "setShowMidi", !.confirm = show]
    /\ events' = <<>>
    /\ UNCHANGED <<midiInputIds, activeMidiInputId>>
    /\ UNCHANGED <<recs, mapsH, prompts, presets, selectedPresetName,
                   storage, lastSave>>
    /\ UNCHANGED knobVars

\* Mutant of EventsAfterGranted: the collection is published again
EventsAfterGrantedRepublished(m) == <<PromptsChanged(m)>>

\* The try block of setShowMidi dispatches nothing
EventsAfterGranted(m) == <<>>

\* setShowMidi resumed after getMidiAccess resolved with inputIds
MidiAccessGranted(i, inputIds, active) ==
    /\ i \in 1..Len(midiRequests)
    /\ active \in DispatcherActiveIds(inputIds)
    /\ midiInputIds' = inputIds
    /\ activeMidiInputId' = active
    /\ midiRequests' = RemoveAt(midiRequests, i)
    /\ op' = [NoOp EXCEPT !.kind = "midiGranted",
                          !.since = midiRequests[i].since]
    /\ events' = EventsAfterGranted(prompts)
    /\ UNCHANGED showMidi
    /\ UNCHANGED <<recs, mapsH, prompts, presets, selectedPresetName,
                   storage, lastSave>>
    /\ UNCHANGED knobVars

\* setShowMidi resumed in its catch after getMidiAccess failed with e
MidiAccessFailed(i, e) ==
    /\ i \in 1..Len(midiRequests)
    /\ showMidi' = ShowMidiAfterFailure(showMidi)
    /\ events' = <<MidiErrorEvent(e)>>
    /\ midiRequests' = RemoveAt(midiRequests, i)
    /\ op' = [NoOp EXCEPT !.kind = "midiFailed",
                          !.since = midiRequests[i].since]
    /\ UNCHANGED <<midiInputIds, activeMidiInputId>>
    /\ UNCHANGED <<recs, mapsH, prompts, presets, selectedPresetName,
                   storage, lastSave>>
    /\ UNCHANGED knobVars

\* The options of the device select: the ids, or one option '' without any
MidiOptions ==
    IF Len(midiInputIds) > 0
    THEN {midiInputIds[i] : i \in 1..Len(midiInputIds)}
    ELSE {""}

\* handleMidiInputChange: the select is visible while showMidi
HandleMidiInputChange(newMidiId) ==
    /\ showMidi
    /\ newMidiId \in MidiOptions
    /\ activeMidiInputId' = newMidiId
    /\ op' = [NoOp EXCEPT !.kind = "midiInput"]
    /\ events' = <<>>
    /\ UNCHANGED <<showMidi, midiInputIds, midiRequests>>
    /\ UNCHANGED <<recs, mapsH, prompts, presets, selectedPresetName,
                   storage, lastSave>>
    /\ UNCHANGED knobVars

(***************************************************************************)
(* WeightKnob                                                              *)
(***************************************************************************)
Knobs == {"k1", "k2"}

\* e.clientY of pointer events, e.deltaY of wheel events, and the value the
\* host gives a knob (the weight of its prompt)
PointerYs == {50, 100, 300}
WheelDeltas == {-200, 200}
InitialValue == [k \in Knobs |-> IF k = "k1" THEN 120 ELSE 0]

\* Mutant of Clamp: clamps to the bounds only what is well past them
ClampLate(v) ==
    IF v > MaxValue + 10 THEN MaxValue
    ELSE IF v < MinValue - 10 THEN MinValue
    ELSE v

\* Mutant of Clamp: the lower bound is forgotten
ClampUpperOnly(v) == IF v < MaxValue THEN v ELSE MaxValue

\* Math.max(0, Math.min(2, v))
Clamp(v) ==
    LET m == IF v < MaxValue THEN v ELSE MaxValue
    IN  IF m > MinValue THEN m ELSE MinValue

\* Mutant of DragValue: the displacement is taken the other way round
DragValueInverted(startValue, startPos, clientY) ==
    startValue + (clientY - startPos) * DragStep

\* this.dragStartValue + delta * 0.01, with delta = dragStartPos - clientY
DragValue(startValue, startPos, clientY) ==
    startValue + (startPos - clientY) * DragStep

\* Mutant of WheelValue: the sign of the wheel delta is not inverted
WheelValuePlain(v, deltaY) == v + deltaY * WheelStep

\* this.value + delta * -0.0025
WheelValue(v, deltaY) == v + deltaY * (0 - WheelStep)

InputEvent(k, v) == [knob |-> k, detail |-> v]

NoKnobOp == [kind |-> "init", knob |-> "", y |-> 0]

Listening(k, type) == <<k, type>> \in windowListeners

HandlePointerDown(k, clientY) ==
    /\ knobOp' = [kind |-> "down", knob |-> k, y |-> clientY]
    /\ dragStartPos' = [dragStartPos EXCEPT ![k] = clientY]
    /\ dragStartValue' = [dragStartValue EXCEPT ![k] = value[k]]
    /\ bodyDragging' = TRUE
    /\ windowListeners' =
          windowListeners \cup {<<k, "pointermove">>, <<k, "pointerup">>}
    /\ knobEvents' = {}
    /\ UNCHANGED value
    /\ UNCHANGED mgrVars

\* A pointermove on window: handlePointerMove of every knob listening
HandlePointerMove(clientY) ==
    /\ \E k \in Knobs : Listening(k, "pointermove")
    /\ knobOp' = [kind |-> "move", knob |-> "", y |-> clientY]
    /\ value' = [k \in Knobs |->
                    IF Listening(k, "pointermove")
                    THEN Clamp(DragValue(dragStartValue[k], dragStartPos[k],
                                         clientY))
                    ELSE value[k]]
    /\ knobEvents' = {InputEvent(k, value'[k]) :
                         k \in {j \in Knobs : Listening(j, "pointermove")}}
    /\ UNCHANGED <<dragStartPos, dragStartValue, windowListeners, bodyDragging>>
    /\ UNCHANGED mgrVars

\* Mutant of ListenersAfterUp: only the pointerup listener is removed
ListenersAfterUpKeepMove(listeners) ==
    {l \in listeners : l[2] # "pointerup"}

\* window's listeners after handlePointerUp of every knob whose pointerup
\* listener is registered
ListenersAfterUp(listeners) ==
    {l \in listeners : <<l[1], "pointerup">> \notin listeners}

\* A pointerup on window: handlePointerUp of every knob listening
HandlePointerUp ==
    /\ \E k \in Knobs : Listening(k, "pointerup")
    /\ knobOp' = [kind |-> "up", knob |-> "", y |-> 0]
    /\ windowListeners' = ListenersAfterUp(windowListeners)
    /\ bodyDragging' = FALSE
    /\ knobEvents' = {}
    /\ UNCHANGED <<value, dragStartPos, dragStartValue>>
    /\ UNCHANGED mgrVars

HandleWheel(k, deltaY) ==
    /\ knobOp' = [kind |-> "wheel", knob |-> k, y |-> deltaY]
    /\ value' = [value EXCEPT ![k] = Clamp(WheelValue(value[k], deltaY))]
    /\ knobEvents' = {InputEvent(k, value'[k])}
    /\ UNCHANGED <<dragStartPos, dragStartValue, windowListeners, bodyDragging>>
    /\ UNCHANGED mgrVars

(***************************************************************************)
(* Specifications                                                          *)
(***************************************************************************)
KnobInit ==
    /\ value = InitialValue
    /\ dragStartPos = [k \in Knobs |-> 0]
    /\ dragStartValue = [k \in Knobs |-> 0]
    /\ windowListeners = {}
    /\ bodyDragging = FALSE
    /\ knobOp = NoKnobOp
    /\ knobEvents = {}

\* The component constructed over InitialPrompts with the store holding stored
Constructed(stored) ==
    LET loaded == LoadPresetsFromStorage(stored)
    IN  /\ recs = InitialPrompts
        /\ mapsH = << [i \in 1..Len(InitialPrompts) |->
                          <<InitialPrompts[i].promptId, i>>] >>
        /\ prompts = 1
        /\ presets = loaded.presets
        /\ selectedPresetName = loaded.selected
        /\ storage = loaded.storage
        /\ events = <<>>
        /\ op = [NoOp EXCEPT !.stored = [st |-> stored.st, t |-> stored.t]]
        /\ lastSave = NoSave
        /\ showMidi = FALSE
        /\ midiInputIds = <<>>
        /\ activeMidiInputId = NoDevice
        /\ midiRequests = <<>>

Init ==
    /\ \E stored \in StoredTexts : Constructed(stored)
    /\ KnobInit

Next ==
    \/ \E id \in PromptIds, d \in EditDetails : HandlePromptChanged(id, d)
    \/ \E cancel \in BOOLEAN, typed \in TypedNames :
          HandleSavePreset(cancel, typed)
    \/ HandleLoadPreset
    \/ \E answer \in BOOLEAN : HandleDeletePreset(answer)
    \/ \E name \in PresetNames : HandlePresetSelectionChange(name)

Spec == Init /\ [][Next]_vars

\* The manager with its MIDI button: requests for MIDI access stay pending
\* while prompts are edited and presets saved, loaded and deleted.
MidiEditIds == {"A", "C"}
MidiTypedNames == {<<"a">>, <<" ">>}

MidiInit ==
    /\ Constructed(AbsentStorage)
    /\ KnobInit

MidiNext ==
    \/ \E show \in BOOLEAN : SetShowMidi(show)
    \/ \E i \in 1..MaxRequests, ids \in MidiDeviceLists,
          active \in {NoDevice, "in1", "in2"} :
          MidiAccessGranted(i, ids, active)
    \/ \E i \in 1..MaxRequests : MidiAccessFailed(i, MidiAccessDenied)
    \/ \E id \in {"", "in1", "in2"} : HandleMidiInputChange(id)
    \/ \E id \in MidiEditIds, d \in EditDetails : HandlePromptChanged(id, d)
    \/ \E typed \in MidiTypedNames : HandleSavePreset(FALSE, typed)
    \/ HandleLoadPreset
    \/ HandleDeletePreset(TRUE)
    \/ \E name \in PresetNames : HandlePresetSelectionChange(name)

MidiSpec == MidiInit /\ [][MidiNext]_vars

KnobSpecInit ==
    /\ Constructed(AbsentStorage)
    /\ KnobInit

KnobNext ==
    \/ \E k \in Knobs, y \in PointerYs : HandlePointerDown(k, y)
    \/ \E y \in PointerYs : HandlePointerMove(y)
    \/ HandlePointerUp
    \/ \E k \in Knobs, d \in WheelDeltas : HandleWheel(k, d)

KnobSpec == KnobSpecInit /\ [][KnobNext]_vars

\* Wheel events alone, the same one over and over: the first event picks a
\* knob and a delta, every later one repeats them.  The values a knob starts
\* from and the deltas include ones off the grid of the others.
WheelStarts == {0, 120, 330, 800}
RepeatedDeltas == WheelDeltas \cup {-120, -7, 7, 120}

WheelInit ==
    /\ Constructed(AbsentStorage)
    /\ value \in [Knobs -> WheelStarts]
    /\ dragStartPos = [k \in Knobs |-> 0]
    /\ dragStartValue = [k \in Knobs |-> 0]
    /\ windowListeners = {}
    /\ bodyDragging = FALSE
    /\ knobOp = NoKnobOp
    /\ knobEvents = {}

WheelNext ==
    \E k \in Knobs, d \in RepeatedDeltas :
        /\ knobOp.kind = "wheel" => (k = knobOp.knob /\ d = knobOp.y)
        /\ HandleWheel(k, d)

\* The events keep coming: the next one is delivered whenever it would
\* change anything.
WheelSpec == WheelInit /\ [][WheelNext]_vars /\ WF_vars(WheelNext)

(***************************************************************************)
(* Properties                                                              *)
(***************************************************************************)
\* Text, weight and channel of every identifier of a collection
EditableView(content) ==
    [i \in 1..Len(content) |->
        <<content[i][1], content[i][2].text, content[i][2].weight,
          content[i][2].cc>>]

\* The events of one type among those a handler dispatched
EventsOfType(es, type) == {i \in 1..Len(es) : es[i].type = type}

\* A sequence of properties without the one named k
Without(props, k) == SelectSeq(props, LAMBDA e : e[1] # k)

\* C1: an edit never mutates an earlier collection in place: every Map that
\* existed before the edit (the constructor's, every one that was current or
\* published) holds after it the text, weight and channel it held before,
\* for every identifier.
C1_EditKeepsEarlierCollections ==
    [][op'.kind = "edit" =>
        \A m \in 1..Len(mapsH) :
            EditableView(EntriesOf(recs', mapsH'[m]))
                = EditableView(EntriesOf(recs, mapsH[m]))]_vars

\* C2: an edit whose identifier is absent from the current collection leaves
\* this.prompts the same reference with the same content and dispatches no
\* 'prompts-changed', also after a preset load replaced the collection.
C2_UnknownEditIsNoOp ==
    [][(op'.kind = "edit" /\ ~MapHas(mapsH[prompts], op'.id)) =>
        /\ prompts' = prompts
        /\ mapsH'[prompts'] = mapsH[prompts]
        /\ EntriesOf(recs', mapsH'[prompts']) = EntriesOf(recs, mapsH[prompts])
        /\ EventsOfType(events', "prompts-changed") = {}]_vars

\* C2 witness: an edit for "B", which the constructor's collection held, was
\* refused: a loaded preset without "B" is current.
C2_Witness ==
    /\ op.kind = "edit"
    /\ op.id = "B"
    /\ ~MapHas(mapsH[prompts], "B")
    /\ prompts # 1
    /\ events = <<>>

\* C3: every step that changes the current collection, and every edit of a
\* known identifier and every load that deserializes, dispatches exactly one
\* 'prompts-changed' whose Map holds exactly the entries (identifiers and
\* records) of the new current collection.
C3_EveryChangeRepublished ==
    [][LET changed ==
               \/ prompts' # prompts
               \/ EntriesOf(recs', mapsH'[prompts'])
                      # EntriesOf(recs, mapsH[prompts])
           edited == op'.kind = "edit" /\ MapHas(mapsH[prompts], op'.id)
           loaded ==
               /\ op'.kind = "load"
               /\ presets.t = "obj"
               /\ HasOwn(presets.props, selectedPresetName)
               /\ OwnValue(presets.props, selectedPresetName).k = "json"
               /\ OwnValue(presets.props, selectedPresetName).t = "arr"
           published == EventsOfType(events', "prompts-changed")
       IN  (changed \/ edited \/ loaded) =>
               /\ Cardinality(published) = 1
               /\ \A i \in published :
                     mapsH'[events'[i].map] = mapsH'[prompts']]_vars

\* C3 witness: a load replaced the collection and published a copy of it.
C3_Witness ==
    /\ op.kind = "load"
    /\ Len(events) = 1
    /\ events[1].type = "prompts-changed"
    /\ events[1].map # prompts
    /\ mapsH[events[1].map] = mapsH[prompts]
    /\ MapHas(mapsH[prompts], "C")

\* C4: loading preset n, selected, after its save gives the collection as
\* it was when saved: same identifiers in the same order, same text, weight,
\* color and channel.
C4_SaveLoadRoundTrip ==
    (op.kind = "load" /\ lastSave.has /\ lastSave.name = selectedPresetName)
        => Content(prompts) = lastSave.v

\* C5: a load of a selected preset whose payload does not deserialize leaves
\* the collection, the presets, the selection and the store as they were,
\* dispatches no 'prompts-changed' and dispatches an 'error'.
C5_CorruptLoadReportsError ==
    [][(/\ op'.kind = "load"
        /\ presets.t = "obj"
        /\ HasOwn(presets.props, selectedPresetName)
        /\ LET payload == OwnValue(presets.props, selectedPresetName)
           IN  payload.k # "json" \/ payload.t # "arr") =>
        /\ prompts' = prompts
        /\ EntriesOf(recs', mapsH'[prompts']) = EntriesOf(recs, mapsH[prompts])
        /\ EventsOfType(events', "prompts-changed") = {}
        /\ EventsOfType(events', "error") # {}
        /\ UNCHANGED <<presets, selectedPresetName, storage>>]_vars

\* C6: a save with no name, an empty or a blank one changes neither presets,
\* selection nor store; with any other name the presets hold the
\* serialization of the current collection under the trimmed name, every
\* other preset is as before, no name occurs twice, the trimmed name is
\* selected and the store holds the whole preset mapping.
C6_SaveStoresUnderTrimmedName ==
    [][op'.kind = "save" =>
        IF op'.cancel \/ \A i \in 1..Len(op'.input) : op'.input[i] = " "
        THEN UNCHANGED <<presets, selectedPresetName, storage>>
        ELSE LET name == Trim(op'.input)
             IN  /\ presets'.t = "obj"
                 /\ HasOwn(presets'.props, name)
                 /\ OwnValue(presets'.props, name)
                       = StringifyEntries(Content(prompts))
                 /\ Without(presets'.props, name) = Without(presets.props, name)
                 /\ Cardinality(KeySet(presets'.props)) = Len(presets'.props)
                 /\ selectedPresetName' = name
                 /\ storage' = ObjectStorage(presets'.props)]_vars

\* C7: a confirmed delete of the selected preset removes that preset and no
\* other from the mapping, the store holds the remaining mapping, the
\* selection is the first remaining preset in the order the mapping is stored
\* in (empty if none remains), and the current collection is untouched.
C7_DeleteSelectsFirstRemaining ==
    [][(/\ op'.kind = "delete"
        /\ op'.confirm
        /\ HasOwn(presets.props, selectedPresetName)) =>
        /\ presets'.props = Without(presets.props, selectedPresetName)
        /\ storage' = ObjectStorage(Without(presets.props, selectedPresetName))
        /\ selectedPresetName' =
              IF storage'.props = <<>> THEN EmptyString
              ELSE storage'.props[1][1]
        /\ prompts' = prompts
        /\ EntriesOf(recs', mapsH'[prompts']) = EntriesOf(recs, mapsH[prompts])]_vars

\* C7 witness: a confirmed delete left two presets, the first one selected.
C7_Witness ==
    /\ op.kind = "delete"
    /\ op.confirm
    /\ Len(presets.props) = 2
    /\ selectedPresetName = presets.props[1][1]
    /\ storage = ObjectStorage(presets.props)

\* C8: every prompt of the current collection has a weight within [0,2].
C8_WeightsInRange ==
    \A i \in 1..Len(mapsH[prompts]) :
        /\ recs[mapsH[prompts][i][2]].weight >= 0
        /\ recs[mapsH[prompts][i][2]].weight <= 800

\* The knobs whose handlePointerMove a pointermove on window reaches
Dragging == {k \in Knobs : Listening(k, "pointermove")}

\* C9: after every pointer-move and every wheel event the value of each knob
\* the event reached is within [0,2] (0..800 units), and the event made that
\* knob dispatch one 'input' carrying exactly that value; no other knob
\* dispatched anything.
C9_KnobValueClamped ==
    /\ \A k \in Knobs : value[k] >= 0 /\ value[k] <= 800
    /\ knobOp.kind \in {"move", "wheel"} =>
          LET reached == IF knobOp.kind = "wheel" THEN {knobOp.knob}
                         ELSE Dragging
          IN  /\ reached # {}
              /\ knobEvents = {[knob |-> k, detail |-> value[k]] : k \in reached}

\* C9 witness: a pointer-move whose unclamped result exceeds 2 left the value
\* at exactly 2, and the knob dispatched an input carrying 2.
C9_Witness ==
    /\ knobOp.kind = "move"
    /\ \E k \in Dragging :
          /\ dragStartValue[k] + (dragStartPos[k] - knobOp.y) * 4 > 800
          /\ value[k] = 800
          /\ [knob |-> k, detail |-> 800] \in knobEvents

\* C10: within a drag each pointer-move sets the value to
\* clamp(dragStartValue + (dragStartPos - clientY) * 0.01, 0, 2) of what
\* pointer-down captured (only pointer-down changes the captured pair, to the
\* coordinate of the event and the value then); so of two moves in a row the
\* one further up gives no smaller value, and from y=100 at 0.3 a move to
\* y=50 gives 0.8.
C10_DragFromCapturedStart ==
    [][/\ knobOp'.kind = "move" =>
             \A k \in Dragging :
                 LET raw == dragStartValue[k] + (dragStartPos[k] - knobOp'.y) * 4
                 IN  /\ value'[k] = IF raw < 0 THEN 0
                                    ELSE IF raw > 800 THEN 800 ELSE raw
                     /\ (knobOp.kind = "move" /\ knobOp'.y <= knobOp.y)
                            => value'[k] >= value[k]
                     /\ (dragStartPos[k] = 100 /\ dragStartValue[k] = 120
                            /\ knobOp'.y = 50) => value'[k] = 320
       /\ knobOp'.kind # "down" => UNCHANGED <<dragStartPos, dragStartValue>>
       /\ knobOp'.kind = "down" =>
             /\ dragStartPos'[knobOp'.knob] = knobOp'.y
             /\ dragStartValue'[knobOp'.knob] = value[knobOp'.knob]
             /\ \A k \in Knobs \ {knobOp'.knob} :
                   /\ dragStartPos'[k] = dragStartPos[k]
                   /\ dragStartValue'[k] = dragStartValue[k]]_vars

\* C10 witness: the drag of the scenario: pointer-down at y=100 with value
\* 0.3, after other moves a move to y=50, value 0.8.
C10_Witness ==
    /\ knobOp.kind = "move"
    /\ knobOp.y = 50
    /\ \E k \in Dragging :
          /\ dragStartPos[k] = 100
          /\ dragStartValue[k] = 120
          /\ value[k] = 320

\* C11 as stated: a wheel event with delta +120 on a knob at 0 makes the
\* value 0.3 (120 units).
C11_WheelUpFromZeroGivesPoint3 ==
    [][(/\ knobOp'.kind = "wheel"
        /\ knobOp'.y = 120
        /\ value[knobOp'.knob] = 0) => value'[knobOp'.knob] = 120]_vars

\* C11 amended: a wheel event with delta +120 on a knob at 0 leaves the value
\* at 0; it is delta -120 that makes it 0.3.
C11_WheelDownFromZeroGivesPoint3 ==
    [][(knobOp'.kind = "wheel" /\ value[knobOp'.knob] = 0) =>
        /\ knobOp'.y = 120 => value'[knobOp'.knob] = 0
        /\ knobOp'.y = -120 => value'[knobOp'.knob] = 120]_vars

\* C11 witness: a wheel event with delta -120 left a knob at 0.3, which it
\* only does from 0.
C11_Witness ==
    /\ knobOp.kind = "wheel"
    /\ knobOp.y = -120
    /\ value[knobOp.knob] = 120
    /\ knobEvents = {[knob |-> knobOp.knob, detail |-> 120]}

\* C12: wheel events of one same delta, repeated, bring the value to exactly
\* 0 (positive delta) or exactly 2 (negative delta) and it stays there for
\* good; every event, also one at the boundary, dispatches an input carrying
\* the value.
C12_RepeatedWheelConverges ==
    /\ \A k \in Knobs :
          /\ (knobOp.kind = "wheel" /\ knobOp.knob = k /\ knobOp.y > 0)
                ~> [](value[k] = 0)
          /\ (knobOp.kind = "wheel" /\ knobOp.knob = k /\ knobOp.y < 0)
                ~> [](value[k] = 800)
    /\ [](knobOp.kind = "wheel" =>
             knobEvents = {[knob |-> knobOp.knob, detail |-> value[knobOp.knob]]})
    /\ [][knobOp.kind = "wheel" =>
             /\ (knobOp.y > 0 /\ value[knobOp.knob] = 0)
                    => value'[knobOp.knob] = 0
             /\ (knobOp.y < 0 /\ value[knobOp.knob] = 800)
                    => value'[knobOp.knob] = 800]_vars

\* C12 witness: a wheel event of delta +7, which divides none of the starting
\* values but 0, has left the knob at exactly 0 and dispatched that value.
C12_Witness ==
    /\ knobOp.kind = "wheel"
    /\ knobOp.y = 7
    /\ value[knobOp.knob] = 0
    /\ knobEvents = {[knob |-> knobOp.knob, detail |-> 0]}

\* C13: the window-level listeners of at most one knob are registered, so a
\* pointer-move on window changes the value of at most one knob.
C13_OneKnobOwnsThePointer ==
    /\ Cardinality({k \in Knobs : \E type \in {"pointermove", "pointerup"} :
                                     Listening(k, type)}) <= 1
    /\ knobOp.kind = "move" => Cardinality(knobEvents) <= 1

\* C14: a pointer-up leaves no listener of a knob it reached and clears the
\* 'dragging' marker; a pointer-move neither changes nor makes dispatch a
\* knob without listener; listeners of a knob appear only by its own
\* pointer-down; and with no listener registered the marker is clear, so
\* handlePointerUp has nothing to remove.
C14_NoListenerOutlivesItsDrag ==
    [][/\ knobOp'.kind = "up" =>
             /\ \A k \in Knobs :
                   Listening(k, "pointerup") =>
                       /\ <<k, "pointermove">> \notin windowListeners'
                       /\ <<k, "pointerup">> \notin windowListeners'
             /\ ~bodyDragging'
       /\ knobOp'.kind = "move" =>
             \A k \in Knobs :
                 ~Listening(k, "pointermove") =>
                     /\ value'[k] = value[k]
                     /\ \A e \in knobEvents' : e.knob # k
       /\ \A k \in Knobs, type \in {"pointermove", "pointerup"} :
             (<<k, type>> \in windowListeners' /\ ~Listening(k, type)) =>
                 (knobOp'.kind = "down" /\ knobOp'.knob = k)
       /\ windowListeners' = {} => ~bodyDragging']_vars

\* C14 witness: after a drag that changed the value, pointer-up has removed
\* every listener and the marker.
C14_Witness ==
    /\ knobOp.kind = "up"
    /\ windowListeners = {}
    /\ ~bodyDragging
    /\ \E k \in Knobs : value[k] # InitialValue[k] /\ dragStartPos[k] # 0

\* C15: a setShowMidi whose request for MIDI access fails dispatches exactly
\* one 'error' carrying the message of the failure and leaves showMidi false;
\* the device list, the active device, the prompts, the presets, the
\* selection and the store are as before, and a prompt can be edited and a
\* preset saved afterwards.
C15_MidiFailureIsNotFatal ==
    /\ [][op'.kind = "midiFailed" =>
             /\ events' = <<MidiErrorEvent(MidiAccessDenied)>>
             /\ showMidi' = FALSE
             /\ UNCHANGED <<midiInputIds, activeMidiInputId>>
             /\ UNCHANGED <<recs, mapsH, prompts, presets,
                            selectedPresetName, storage>>]_vars
    /\ [](op.kind = "midiFailed" =>
             /\ ENABLED HandleSavePreset(FALSE, <<"a">>)
             /\ Len(mapsH) < MaxMaps =>
                   \A d \in EditDetails : ENABLED HandlePromptChanged("A", d))

\* C15 witness: a request failed after an earlier one had been granted; the
\* devices found then are still listed and the one chosen still active.
C15_Witness ==
    /\ op.kind = "midiFailed"
    /\ ~showMidi
    /\ events = <<MidiErrorEvent(MidiAccessDenied)>>
    /\ midiInputIds = <<"in1", "in2">>
    /\ activeMidiInputId = "in2"
    /\ HasOwn(presets.props, <<"a">>)

\* C16: while a setShowMidi is suspended, a prompt can be edited and a preset
\* saved; when it resumes, granted or failed, it publishes no collection and
\* leaves prompts, records, presets, selection and store exactly as the
\* handlers that ran in the meantime left them.
C16_MidiCompletionTouchesOnlyMidi ==
    /\ [][op'.kind \in {"midiGranted", "midiFailed"} =>
             /\ UNCHANGED <<recs, mapsH, prompts, presets,
                            selectedPresetName, storage>>
             /\ EventsOfType(events', "prompts-changed") = {}]_vars
    /\ [](Len(midiRequests) > 0 =>
             /\ ENABLED HandleSavePreset(FALSE, <<"a">>)
             /\ Len(mapsH) < MaxMaps =>
                   \A d \in EditDetails : ENABLED HandlePromptChanged("A", d))

\* C16 witness: access was granted to a call that was suspended while
\* another Map was current than now; a preset is saved and selected.
C16_Witness ==
    /\ op.kind = "midiGranted"
    /\ op.since # prompts
    /\ selectedPresetName = <<"a">>
    /\ midiInputIds = <<"in1">>

\* C17: after construction, a stored text that is no JSON has been removed
\* from the store and left the presets empty and nothing selected; a stored
\* text that is JSON has been loaded as the presets, is still stored, and the
\* first name it holds, in the order of the text, is selected.
C17_StartupLoadsOrDiscards ==
    op.kind = "init" =>
        /\ op.stored.st = "garbage" =>
              /\ storage = AbsentStorage
              /\ presets = EmptyPresets
              /\ selectedPresetName = EmptyString
        /\ op.stored.st = "json" =>
              /\ presets.t = "obj"
              /\ storage.st = "json"
              /\ {presets.props[i] : i \in 1..Len(presets.props)}
                    = {storage.props[i] : i \in 1..Len(storage.props)}
              /\ Len(storage.props) > 0 =>
                    selectedPresetName = storage.props[1][1]

\* C18: an edit of a known identifier leaves that identifier with the text,
\* weight and channel of this edit, whatever earlier edits gave it, and its
\* other fields as they were; every other identifier's record is unchanged;
\* and no edit, of a known identifier or not, changes the identifiers of the
\* current collection or their order.
C18_LastEditWins ==
    [][op'.kind = "edit" =>
          LET before == EntriesOf(recs, mapsH[prompts])
              after == EntriesOf(recs', mapsH'[prompts'])
          IN  /\ Len(after) = Len(before)
              /\ \A i \in 1..Len(before) :
                    /\ after[i][1] = before[i][1]
                    /\ after[i][2] =
                          IF before[i][1] = op'.id
                          THEN [before[i][2] EXCEPT
                                   !.text = op'.detail.text,
                                   !.weight = op'.detail.weight,
                                   !.cc = op'.detail.cc]
                          ELSE before[i][2]]_vars

\* C18 witness: the second edit in a row of "A" is in the current collection,
\* "B" beside it as constructed.
C18_Witness ==
    /\ op.kind = "edit"
    /\ op.id = "A"
    /\ prompts = 3
    /\ Len(Content(prompts)) = 2
    /\ Content(prompts)[1][1] = "A"
    /\ Content(prompts)[1][2].text = op.detail.text
    /\ Content(prompts)[1][2].cc = op.detail.cc
    /\ Content(prompts)[2][2] = InitialPrompts[2]

\* C19: the selected preset name is empty or the name of a preset the
\* mapping holds, and it is empty only if the mapping holds none.
C19_SelectionNamesAPreset ==
    /\ selectedPresetName # EmptyString =>
          HasOwn(presets.props, selectedPresetName)
    /\ selectedPresetName = EmptyString => presets.props = <<>>

\* The payload stored under every name is kept by this step, unless this
\* step saves under that name or deletes it
PayloadsKept ==
    \A n \in KeySet(presets.props) :
        (\/ op'.kind \in {"edit", "load", "select"}
         \/ op'.kind = "save" /\ Trim(op'.input) # n
         \/ op'.kind = "delete" /\ selectedPresetName # n) =>
            /\ HasOwn(presets'.props, n)
            /\ OwnValue(presets'.props, n) = OwnValue(presets.props, n)

\* This step, if it loads the name of the last save, gives the collection
\* that save saw
LoadRestoresSaved ==
    (op'.kind = "load" /\ lastSave.has /\ lastSave.name = selectedPresetName)
        => EntriesOf(recs', mapsH'[prompts']) = lastSave.v

\* C20: edits, loads, selections, and saves and deletes of other names leave
\* the payload stored under a name as it is, and a load of the name saved
\* last, whatever of these happened since, gives the collection as it was
\* when saved.
C20_SavedPresetIsIsolated ==
    [][PayloadsKept /\ LoadRestoresSaved]_vars

\* The first half of C20 alone
C20_PayloadsKept == [][PayloadsKept]_vars

\* C21: in every state the store either holds nothing at 'prompt-dj-presets'
\* while this.presets is the empty mapping, or holds a text that decodes to
\* exactly this.presets: the same names with the same payloads in the same
\* order.
C21_StoreMatchesPresets ==
    \/ /\ storage.st = "absent"
       /\ presets = EmptyPresets
    \/ /\ storage.st = "json"
       /\ storage.t = "obj"
       /\ presets.t = "obj"
       /\ ObjectFrom(storage.props) = presets.props

=============================================================================
